---- MODULE Spec2Model ----
(***************************************************************************)
(* Model of two parts of the optimizer core:                               *)
(*   - WorkQueue / WorkerState (work-stealing map/reduce pool)             *)
(*   - cic::RegisterSet and the tracked-value lattice of ClassInitCounter  *)
(***************************************************************************)
EXTENDS Integers, Sequences, FiniteSets, TLC

\* ------------------------------------------------------------------ bounds
MaxThreads == 2   \* largest num_threads handed to the constructor
MaxTasks == 2     \* tasks ever created, by add_item and by push_task
MaxReg == 2       \* register indices 0..MaxReg-1 of a RegisterSet
MaxInstr == 3     \* construction instructions 1..MaxInstr

\* ------------------------------------------------------------ work queue
VARIABLES
    main_pc,        \* position of the thread that owns the WorkQueue
    num_threads_arg,\* history: the num_threads handed to the constructor
    m_num_threads,  \* WorkQueue::m_num_threads
    m_reducer,      \* WorkQueue::m_reducer (which combiner was supplied)
    m_insert_idx,   \* WorkQueue::m_insert_idx
    m_queue,        \* WorkerState::m_queue, per worker index
    m_queue_mtx,    \* WorkerState::m_queue_mtx, per worker: set of holders
    m_data,         \* WorkerState::m_data, per worker
    m_result,       \* WorkerState::m_result, per worker
    data_init_calls,\* number of calls made to data_initializer
    init_output,    \* run_all's argument
    spawn_i,        \* run_all: index of the spawn loop
    join_i,         \* run_all: index of the join loop
    result,         \* run_all: returned value
    wpc,            \* worker lambda: position of each worker thread
    attempts,       \* worker lambda: the permutation of each worker
    pos,            \* worker lambda: position of idx in attempts (1-based)
    cur_task,       \* worker lambda: the task handed to consume
    next_task,      \* identity of the next task to be created
    consumed,       \* history: how often each task was handed to the mapper
    pushed,         \* history: tasks created by push_task
    pushed_alone,   \* history: tasks pushed when every other worker had exited
    pushed_by,      \* history: the worker whose mapper pushed each pushed task
    walked          \* history: the queues each worker popped empty in its
                    \* current pass over attempts, in order

wqvars == <<main_pc, num_threads_arg, m_num_threads, m_reducer, m_insert_idx, m_queue,
            m_queue_mtx, m_data, m_result, data_init_calls, init_output,
            spawn_i, join_i, result, wpc, attempts, pos, cur_task, next_task,
            consumed, pushed, pushed_alone, pushed_by, walked>>

\* ------------------------------------------------------------ RegisterSet
VARIABLES
    m_registers,    \* RegisterSet::m_registers: partial map reg -> value
    m_all_uses,     \* RegisterSet::m_all_uses
    inserted,       \* history: every value ever passed to insert
    last_op         \* history: the last RegisterSet operation and its register

rsvars == <<m_registers, m_all_uses, inserted, last_op>>

\* ------------------------------------------------------- consistent_with
VARIABLES
    cw_this,        \* receiver of the last consistent_with call
    cw_other,       \* argument of the last consistent_with call
    cw_result       \* its result

cwvars == <<cw_this, cw_other, cw_result>>

\* ------------------------------------------- lattice operators, applied
VARIABLES
    lt_op,          \* the last lattice operation applied
    lt_x,           \* its receiver, before the call
    lt_y,           \* its argument
    lt_once,        \* the receiver after x.op(y)
    lt_twice        \* the receiver after x.op(y); x.op(y)

ltvars == <<lt_op, lt_x, lt_y, lt_once, lt_twice>>

\* ------------------------------- merge_registers and the promoted-merged store
VARIABLES
    st_registers,       \* RegisterSet::m_registers, holding tracked values
    m_stored_mergeds,   \* ClassInitCounter::m_stored_mergeds of one method
    st_op,              \* the last operation
    st_found            \* registers whose promoted pair was already stored

stvars == <<st_registers, m_stored_mergeds, st_op, st_found>>

\* ------------------------------------------------- TrackedComparer, called
VARIABLES
    eq_l,           \* the left shared pointer
    eq_r,           \* the right shared pointer
    eq_result       \* what operator() returned

eqvars == <<eq_l, eq_r, eq_result>>

\* ------------------------------------------ escapes of one tracked value
VARIABLES
    m_safe_escapes, \* ClassInitCounter::m_safe_escapes
    escapes,        \* TrackedUses::escapes of the tracked value
    safe_escapes,   \* TrackedUses::safe_escapes of the tracked value
    analyzed        \* the instructions the block analyzer has handled

esvars == <<m_safe_escapes, escapes, safe_escapes, analyzed>>

\* ------------------------------------------- analyze_block over one method
VARIABLES
    cfg,            \* the method's CFG: the successors of each block
    program,        \* the instruction each block holds
    worklist,       \* the blocks waiting to be analyzed
    visited_blocks, \* ClassInitCounter::visited_blocks of the method
    skipped         \* history: the blocks a revisit has skipped

fpvars == <<cfg, program, worklist, visited_blocks, skipped>>

vars == <<wqvars, rsvars, cwvars, ltvars, stvars, eqvars, esvars, fpvars>>

\* What the operations of one part leave alone: the state of the other parts.
notwq == <<rsvars, cwvars, ltvars, stvars, eqvars, esvars, fpvars>>
notrs == <<wqvars, cwvars, ltvars, stvars, eqvars, esvars, fpvars>>
notcw == <<wqvars, rsvars, ltvars, stvars, eqvars, esvars, fpvars>>
notlt == <<wqvars, rsvars, cwvars, stvars, eqvars, esvars, fpvars>>
notst == <<wqvars, rsvars, cwvars, ltvars, eqvars, esvars, fpvars>>
noteq == <<wqvars, rsvars, cwvars, ltvars, stvars, esvars, fpvars>>
notes == <<wqvars, rsvars, cwvars, ltvars, stvars, eqvars, fpvars>>
notfp == <<wqvars, rsvars, cwvars, ltvars, stvars, eqvars, esvars>>

\* ------------------------------------------------------------ inputs
TaskIds == 1..MaxTasks
Reducers == {"sum"}
InitOutputs == {0, 1}

\* The caller-supplied mapper: the partial output of one task.
Mapper(task) == task

\* The caller-supplied reducer: addition, which is associative and commutative
\* and counts every contribution.
Reduce(kind, a, b) == CASE kind = "sum" -> a + b

Workers == 0..(m_num_threads - 1)

\* The arrays std::shuffle can leave behind: every ordering of 0..num-1.
Shuffles(num) ==
    {s \in [1..num -> 0..(num - 1)] : \A i, j \in 1..num : s[i] = s[j] => i = j}

\* create_permutation without the iter_swap: the shuffled array as it is.
create_permutation_unswapped(num, thread_idx, shuffled) == shuffled

\* workqueue_impl::create_permutation, given the array std::shuffle produced.
create_permutation(num, thread_idx, shuffled) ==
    LET k == CHOOSE k \in 1..num : shuffled[k] = thread_idx
    IN  [shuffled EXCEPT ![1] = shuffled[k], ![k] = shuffled[1]]

\* --------------------------------------------------------- construction
WQInit ==
    /\ main_pc = "new"
    /\ num_threads_arg = 0
    /\ m_num_threads = 0
    /\ m_reducer = "sum"
    /\ m_insert_idx = 0
    /\ m_queue = << >>
    /\ m_queue_mtx = << >>
    /\ m_data = << >>
    /\ m_result = << >>
    /\ data_init_calls = 0
    /\ init_output = 0
    /\ spawn_i = 0
    /\ join_i = 0
    /\ result = 0
    /\ wpc = << >>
    /\ attempts = << >>
    /\ pos = << >>
    /\ cur_task = << >>
    /\ next_task = 1
    /\ consumed = [t \in TaskIds |-> 0]
    /\ pushed = {}
    /\ pushed_alone = {}
    /\ pushed_by = << >>
    /\ walked = << >>

\* The constructor with the always_assert left out.
WorkQueue_unchecked(reducer, num_threads) ==
    /\ main_pc = "new"
    /\ num_threads_arg' = num_threads
    /\ m_reducer' = reducer
    /\ m_num_threads' = num_threads
    /\ main_pc' = "constructed"
    /\ m_queue' = [w \in 0..(num_threads - 1) |-> << >>]
    /\ m_queue_mtx' = [w \in 0..(num_threads - 1) |-> {}]
    /\ m_data' = [w \in 0..(num_threads - 1) |-> w]
    /\ m_result' = [w \in 0..(num_threads - 1) |-> 0]
    /\ data_init_calls' = num_threads
    /\ wpc' = [w \in 0..(num_threads - 1) |-> "idle"]
    /\ attempts' = [w \in 0..(num_threads - 1) |-> << >>]
    /\ pos' = [w \in 0..(num_threads - 1) |-> 1]
    /\ cur_task' = [w \in 0..(num_threads - 1) |-> 0]
    /\ walked' = [w \in 0..(num_threads - 1) |-> << >>]
    /\ UNCHANGED <<m_insert_idx, init_output, spawn_i, join_i, result,
                   next_task, consumed, pushed, pushed_alone, pushed_by>>

\* WorkQueue::WorkQueue: the assertion comes before any WorkerState is made.
WorkQueue(reducer, num_threads) ==
    /\ main_pc = "new"
    /\ num_threads_arg' = num_threads
    /\ IF num_threads >= 1
       THEN /\ m_reducer' = reducer
            /\ m_num_threads' = num_threads
            /\ main_pc' = "constructed"
            /\ m_queue' = [w \in 0..(num_threads - 1) |-> << >>]
            /\ m_queue_mtx' = [w \in 0..(num_threads - 1) |-> {}]
            /\ m_data' = [w \in 0..(num_threads - 1) |-> w]
            /\ m_result' = [w \in 0..(num_threads - 1) |-> 0]
            /\ data_init_calls' = num_threads
            /\ wpc' = [w \in 0..(num_threads - 1) |-> "idle"]
            /\ attempts' = [w \in 0..(num_threads - 1) |-> << >>]
            /\ pos' = [w \in 0..(num_threads - 1) |-> 1]
            /\ cur_task' = [w \in 0..(num_threads - 1) |-> 0]
            /\ walked' = [w \in 0..(num_threads - 1) |-> << >>]
       ELSE /\ main_pc' = "failed"
            /\ UNCHANGED <<m_reducer, m_num_threads, m_queue, m_queue_mtx,
                           m_data, m_result, data_init_calls, wpc, attempts,
                           pos, cur_task, walked>>
    /\ UNCHANGED <<m_insert_idx, init_output, spawn_i, join_i, result,
                   next_task, consumed, pushed, pushed_alone, pushed_by>>

Construct ==
    /\ \E reducer \in Reducers, num_threads \in 0..MaxThreads :
           WorkQueue(reducer, num_threads)
    /\ UNCHANGED notwq

\* add_item that never advances m_insert_idx.
add_item_stuck(task) ==
    /\ m_queue' = [m_queue EXCEPT ![m_insert_idx] = Append(@, task)]
    /\ UNCHANGED m_insert_idx

\* WorkQueue::add_item
add_item(task) ==
    /\ m_insert_idx' = (m_insert_idx + 1) % m_num_threads
    /\ m_queue' = [m_queue EXCEPT ![m_insert_idx'] = Append(@, task)]

AddItem ==
    /\ main_pc = "constructed"
    /\ next_task <= MaxTasks
    /\ add_item(next_task)
    /\ next_task' = next_task + 1
    /\ UNCHANGED <<main_pc, num_threads_arg, m_num_threads, m_reducer,
                   m_queue_mtx, m_data, m_result, data_init_calls,
                   init_output, spawn_i, join_i, result, wpc, attempts, pos,
                   cur_task, consumed, pushed, pushed_alone, pushed_by,
                   walked>>
    /\ UNCHANGED notwq

\* ---------------------------------------------------------------- run_all
ctorvars == <<num_threads_arg, m_num_threads, m_reducer, m_insert_idx,
              m_data, data_init_calls>>

\* run_all is entered with the caller's init_output; all_threads is empty.
RunAll ==
    /\ main_pc = "constructed"
    /\ \E init \in InitOutputs : init_output' = init
    /\ spawn_i' = 0
    /\ main_pc' = "spawning"
    /\ UNCHANGED <<ctorvars, m_queue, m_queue_mtx, m_result, join_i, result,
                   wpc, attempts, pos, cur_task, next_task, consumed, pushed,
                   pushed_alone, pushed_by, walked>>
    /\ UNCHANGED notwq

\* run_all: one turn of the loop that creates the threads; the thread made
\* runs from here on. After the last turn the caller is at the joins.
Spawn ==
    /\ main_pc = "spawning"
    /\ spawn_i < m_num_threads
    /\ wpc' = [wpc EXCEPT ![spawn_i] = "start"]
    /\ spawn_i' = spawn_i + 1
    /\ main_pc' = IF spawn_i + 1 < m_num_threads THEN "spawning" ELSE "joining"
    /\ UNCHANGED <<ctorvars, m_queue, m_queue_mtx, m_result, init_output,
                   join_i, result, attempts, pos, cur_task, next_task,
                   consumed, pushed, pushed_alone, pushed_by, walked>>
    /\ UNCHANGED notwq

\* The threads a join loop that stops after the first thread waits for.
joined_first_only == {w \in Workers : w = 0}

\* The threads the loop over all_threads joins: all of them.
joined_threads == Workers

\* run_all: the loop of joins; each join blocks until its thread has returned
\* from the worker lambda, so the loop is passed once every joined thread has.
Join ==
    /\ main_pc = "joining"
    /\ \A w \in joined_threads : wpc[w] = "exited"
    /\ join_i' = m_num_threads
    /\ main_pc' = "reducing"
    /\ UNCHANGED <<ctorvars, m_queue, m_queue_mtx, m_result, init_output,
                   spawn_i, result, wpc, attempts, pos, cur_task, next_task,
                   consumed, pushed, pushed_alone, pushed_by, walked>>
    /\ UNCHANGED notwq

\* The loop over m_states at the end of run_all, from worker w upwards.
RECURSIVE FoldStates(_, _)
FoldStates(acc, w) ==
    IF w >= m_num_threads THEN acc
    ELSE FoldStates(Reduce(m_reducer, acc, m_result[w]), w + 1)

\* A final fold that starts from the first worker's result.
final_reduce_unseeded == FoldStates(m_result[0], 1)

\* run_all: result = init_output, folded over every worker's m_result.
final_reduce == FoldStates(init_output, 0)

Return ==
    /\ main_pc = "reducing"
    /\ result' = final_reduce
    /\ main_pc' = "returned"
    /\ UNCHANGED <<ctorvars, m_queue, m_queue_mtx, m_result, init_output,
                   spawn_i, join_i, wpc, attempts, pos, cur_task, next_task,
                   consumed, pushed, pushed_alone, pushed_by, walked>>
    /\ UNCHANGED notwq

\* ---------------------------------------------------------- worker lambda
mainvars == <<main_pc, init_output, spawn_i, join_i, result>>

\* The head of the worker lambda: seed m_result, build the permutation.
WorkerStart(w) ==
    /\ wpc[w] = "start"
    /\ m_result' = [m_result EXCEPT ![w] = init_output]
    /\ \E shuffled \in Shuffles(m_num_threads) :
           attempts' = [attempts EXCEPT
                          ![w] = create_permutation(m_num_threads, w, shuffled)]
    /\ pos' = [pos EXCEPT ![w] = 1]
    /\ wpc' = [wpc EXCEPT ![w] = "walk"]
    /\ walked' = [walked EXCEPT ![w] = << >>]
    /\ UNCHANGED <<ctorvars, mainvars, m_queue, m_queue_mtx, cur_task,
                   next_task, consumed, pushed, pushed_alone, pushed_by>>
    /\ UNCHANGED notwq

\* pop_task that takes the front task and drops the one behind it as well.
pop_task_drop(idx) ==
    IF m_queue[idx] # << >>
    THEN [task |-> <<Head(m_queue[idx])>>,
          queue |-> IF Len(m_queue[idx]) >= 2
                    THEN Tail(Tail(m_queue[idx])) ELSE Tail(m_queue[idx])]
    ELSE [task |-> << >>, queue |-> m_queue[idx]]

\* WorkerState::pop_task under the lock: the optional it returns (a sequence
\* of length 0 or 1) and the queue it leaves.
pop_task(idx) ==
    IF m_queue[idx] # << >>
    THEN [task |-> <<Head(m_queue[idx])>>, queue |-> Tail(m_queue[idx])]
    ELSE [task |-> << >>, queue |-> m_queue[idx]]

\* One turn of the for loop from the body of pop_task on: a task goes to
\* consume, no task moves on to the next idx, and a walk that ends without a
\* task returns from the lambda.
PopTurn(w) ==
    /\ LET idx == attempts[w][pos[w]]
           got == pop_task(idx)
       IN  /\ m_queue' = [m_queue EXCEPT ![idx] = got.queue]
           /\ IF got.task # << >>
              THEN /\ cur_task' = [cur_task EXCEPT ![w] = got.task[1]]
                   /\ consumed' = [consumed EXCEPT ![got.task[1]] = @ + 1]
                   /\ wpc' = [wpc EXCEPT ![w] = "mapper"]
                   /\ UNCHANGED <<pos, walked>>
              ELSE /\ walked' = [walked EXCEPT ![w] = Append(@, idx)]
                   /\ IF pos[w] < m_num_threads
                      THEN /\ pos' = [pos EXCEPT ![w] = @ + 1]
                           /\ wpc' = [wpc EXCEPT ![w] = "walk"]
                      ELSE /\ wpc' = [wpc EXCEPT ![w] = "exited"]
                           /\ UNCHANGED pos
                   /\ UNCHANGED <<cur_task, consumed>>
    /\ UNCHANGED <<ctorvars, mainvars, m_result, attempts,
                   next_task, pushed, pushed_alone, pushed_by>>
    /\ UNCHANGED notwq

\* One turn of the for loop: pop_task on m_states[idx] runs under the lock_guard
\* on that queue's mutex, which it takes and releases within the call.
PopTask(w) ==
    /\ wpc[w] = "walk"
    /\ m_queue_mtx[attempts[w][pos[w]]] = {}
    /\ PopTurn(w)
    /\ UNCHANGED m_queue_mtx

\* A push_task that appends to the queue the running task was popped from.
push_task_to_source(w, task) ==
    m_queue' = [m_queue EXCEPT ![attempts[w][pos[w]]] = Append(@, task)]

\* WorkerState::push_task under the lock, on the state of worker w.
push_task(w, task) ==
    m_queue' = [m_queue EXCEPT ![w] = Append(@, task)]

\* The running mapper calls push_task on the state it was handed, the one of
\* the worker running it: the call from its body on.
PushTurn(w) ==
    /\ push_task(w, next_task)
    /\ pushed' = pushed \cup {next_task}
    /\ pushed_alone' =
           IF \A v \in Workers \ {w} : wpc[v] = "exited"
           THEN pushed_alone \cup {next_task} ELSE pushed_alone
    /\ pushed_by' = [t \in DOMAIN pushed_by \cup {next_task} |->
                        IF t = next_task THEN w ELSE pushed_by[t]]
    /\ next_task' = next_task + 1
    /\ UNCHANGED <<ctorvars, mainvars, m_result, attempts,
                   pos, cur_task, consumed, walked>>
    /\ UNCHANGED notwq

\* push_task from a running mapper; the lock_guard is taken and released in
\* the call.
PushTask(w) ==
    /\ wpc[w] = "mapper"
    /\ next_task <= MaxTasks
    /\ m_queue_mtx[w] = {}
    /\ PushTurn(w)
    /\ UNCHANGED <<wpc, m_queue_mtx>>

\* WorkQueue::consume once the mapper has returned.
consume(w, task) ==
    m_result' = [m_result EXCEPT
                   ![w] = Reduce(m_reducer, m_result[w], Mapper(task))]

\* A worker lambda that leaves have_task false when it got a task.
have_task_forgotten == FALSE

\* have_task after a pop that returned a task.
have_task == TRUE

\* consume returns and break leaves the for loop; with have_task set the
\* while loop starts the next walk at the head of attempts, else the lambda
\* returns.
ConsumeDone(w) ==
    /\ wpc[w] = "mapper"
    /\ consume(w, cur_task[w])
    /\ pos' = [pos EXCEPT ![w] = 1]
    /\ wpc' = [wpc EXCEPT ![w] = IF have_task THEN "walk" ELSE "exited"]
    /\ walked' = [walked EXCEPT ![w] = IF have_task THEN << >> ELSE @]
    /\ UNCHANGED <<ctorvars, mainvars, m_queue, m_queue_mtx, attempts,
                   cur_task, next_task, consumed, pushed, pushed_alone,
                   pushed_by>>
    /\ UNCHANGED notwq

WorkerStep(w) ==
    \/ WorkerStart(w)
    \/ PopTask(w)
    \/ PushTask(w)
    \/ ConsumeDone(w)

MainStep == Construct \/ AddItem \/ RunAll \/ Spawn \/ Join \/ Return

WQNext ==
    \/ Construct
    \/ AddItem
    \/ RunAll
    \/ Spawn
    \/ Join
    \/ Return
    \/ \E w \in Workers : WorkerStart(w)
    \/ \E w \in Workers : PopTask(w)
    \/ \E w \in Workers : PushTask(w)
    \/ \E w \in Workers : ConsumeDone(w)

\* ------------------------------------------- the same, lock by lock
\* A lock_guard that does not wait for the mutex.
lock_guard_unchecked(q, w) ==
    m_queue_mtx' = [m_queue_mtx EXCEPT ![q] = @ \cup {w}]

\* boost::lock_guard<boost::mutex> guard(m_queue_mtx) of queue q, by thread w:
\* returns once the mutex is free, holding it
lock_guard(q, w) ==
    /\ m_queue_mtx[q] = {}
    /\ m_queue_mtx' = [m_queue_mtx EXCEPT ![q] = {w}]

\* The lock_guard goes out of scope
unlock(q, w) ==
    m_queue_mtx' = [m_queue_mtx EXCEPT ![q] = @ \ {w}]

\* pop_task on m_states[idx], line 66: the lock is taken
PopLock(w) ==
    /\ wpc[w] = "walk"
    /\ lock_guard(attempts[w][pos[w]], w)
    /\ wpc' = [wpc EXCEPT ![w] = "popping"]
    /\ UNCHANGED <<ctorvars, mainvars, m_queue, m_result, attempts, pos,
                   cur_task, next_task, consumed, pushed, pushed_alone,
                   pushed_by, walked>>
    /\ UNCHANGED notwq

\* pop_task, lines 67-72, and the turn of the for loop that called it
PopLocked(w) ==
    /\ wpc[w] = "popping"
    /\ PopTurn(w)
    /\ unlock(attempts[w][pos[w]], w)

\* push_task, line 58: the lock is taken
PushLock(w) ==
    /\ wpc[w] = "mapper"
    /\ next_task <= MaxTasks
    /\ lock_guard(w, w)
    /\ wpc' = [wpc EXCEPT ![w] = "pushing"]
    /\ UNCHANGED <<ctorvars, mainvars, m_queue, m_result, attempts, pos,
                   cur_task, next_task, consumed, pushed, pushed_alone,
                   pushed_by, walked>>
    /\ UNCHANGED notwq

\* push_task, line 59, and the return to the mapper
PushLocked(w) ==
    /\ wpc[w] = "pushing"
    /\ PushTurn(w)
    /\ unlock(w, w)
    /\ wpc' = [wpc EXCEPT ![w] = "mapper"]

LocksNext ==
    \/ Construct
    \/ AddItem
    \/ RunAll
    \/ Spawn
    \/ Join
    \/ Return
    \/ \E w \in Workers : WorkerStart(w)
    \/ \E w \in Workers : PopLock(w)
    \/ \E w \in Workers : PopLocked(w)
    \/ \E w \in Workers : PushLock(w)
    \/ \E w \in Workers : PushLocked(w)
    \/ \E w \in Workers : ConsumeDone(w)

\* ============================================================ RegisterSet
\* std::shared_ptr<TrackedUses>(nullptr)
Null == 0

\* The tracked values of a method's analysis, by address. Addresses 1 and 2
\* are two ObjectUses records of one instruction (the init index keeps several
\* records of an instruction that is revisited); the records of one
\* instruction set differ in what they have recorded.
Heap ==
    << [m_tracked_kind |-> "Object", m_id |-> 1, m_class_used |-> "T1",
        created_flow |-> "AllPaths", fields_read |-> << >>],
       [m_tracked_kind |-> "Object", m_id |-> 1, m_class_used |-> "T1",
        created_flow |-> "Conditional",
        fields_read |-> [f \in {"f"} |-> "AllPaths"]],
       [m_tracked_kind |-> "Object", m_id |-> 2, m_class_used |-> "T2",
        created_flow |-> "AllPaths", fields_read |-> << >>],
       [m_tracked_kind |-> "Merged", m_instrs |-> {1, 2},
        m_classes |-> {"T1", "T2"}, m_includes_nullable |-> FALSE,
        fields_read |-> << >>],
       [m_tracked_kind |-> "Merged", m_instrs |-> {1, 2},
        m_classes |-> {"T1", "T2"}, m_includes_nullable |-> TRUE,
        fields_read |-> [f \in {"f"} |-> "Conditional"]],
       [m_tracked_kind |-> "Merged", m_instrs |-> {1},
        m_classes |-> {"T1"}, m_includes_nullable |-> TRUE,
        fields_read |-> << >>],
       [m_tracked_kind |-> "Merged", m_instrs |-> {1, 3},
        m_classes |-> {"T1"}, m_includes_nullable |-> FALSE,
        fields_read |-> << >>],
       [m_tracked_kind |-> "Object", m_id |-> 3, m_class_used |-> "T1",
        created_flow |-> "AllPaths", fields_read |-> << >>],
       [m_tracked_kind |-> "Merged", m_instrs |-> {1, 2, 3},
        m_classes |-> {"T1", "T2"}, m_includes_nullable |-> FALSE,
        fields_read |-> << >>],
       [m_tracked_kind |-> "Merged", m_instrs |-> {1, 3},
        m_classes |-> {"T1"}, m_includes_nullable |-> TRUE,
        fields_read |-> [f \in {"f"} |-> "AllPaths"]] >>

\* The addresses a RegisterSet is given
Ptrs == 1..4

Regs == 0..(MaxReg - 1)

\* ObjectUses::same_instr
same_instr(l, r) == l.m_id = r.m_id

\* MergedUses::same_instrs
same_instrs(l, r) == l.m_instrs = r.m_instrs

\* A comparer that compares all the two objects hold.
TrackedComparer_whole(l, r) ==
    IF l = Null /\ r = Null THEN TRUE
    ELSE IF l = Null \/ r = Null THEN FALSE
    ELSE Heap[l] = Heap[r]

\* TrackedComparer::operator() on two shared pointers
TrackedComparer(l, r) ==
    IF l = Null /\ r = Null THEN TRUE
    ELSE IF l = Null \/ r = Null THEN FALSE
    ELSE IF Heap[l].m_tracked_kind # Heap[r].m_tracked_kind THEN FALSE
    ELSE IF Heap[l].m_tracked_kind = "Merged"
         THEN same_instrs(Heap[l], Heap[r])
         ELSE same_instr(Heap[l], Heap[r])

\* UsedSet (an unordered_set keyed by TrackedComparer): count(uses) != 0
UsedSet_count(set, uses) == \E e \in set : TrackedComparer(e, uses)

\* UsedSet::insert: an element equal to uses keeps its place
UsedSet_insert(set, uses) ==
    IF UsedSet_count(set, uses) THEN set ELSE set \cup {uses}

RSInit ==
    /\ m_registers = << >>
    /\ m_all_uses = {}
    /\ inserted = {}
    /\ last_op = <<"none", 0, Null>>

\* insert that stores the register and forgets to remember the use.
insert_forgets(i, uses) ==
    /\ UNCHANGED m_all_uses
    /\ m_registers' = [r \in DOMAIN m_registers \cup {i} |->
                          IF r = i THEN uses ELSE m_registers[r]]

\* RegisterSet::insert
insert(i, uses) ==
    /\ m_all_uses' = UsedSet_insert(m_all_uses, uses)
    /\ m_registers' = [r \in DOMAIN m_registers \cup {i} |->
                          IF r = i THEN uses ELSE m_registers[r]]

\* clear that also drops the cleared value from the all-seen set.
clear_erases(i) ==
    IF i \in DOMAIN m_registers
    THEN /\ m_all_uses' =
                {e \in m_all_uses : ~TrackedComparer(e, m_registers[i])}
         /\ m_registers' = [m_registers EXCEPT ![i] = Null]
    ELSE UNCHANGED <<m_registers, m_all_uses>>

\* clear that resets the register whether or not it has an entry.
clear_inserts(i) ==
    /\ m_registers' = [r \in DOMAIN m_registers \cup {i} |->
                          IF r = i THEN Null ELSE m_registers[r]]
    /\ UNCHANGED m_all_uses

\* RegisterSet::clear
clear(i) ==
    IF i \in DOMAIN m_registers
    THEN /\ m_registers' = [m_registers EXCEPT ![i] = Null]
         /\ UNCHANGED m_all_uses
    ELSE UNCHANGED <<m_registers, m_all_uses>>

\* RegisterSet::get
get(i) == IF i \notin DOMAIN m_registers THEN Null ELSE m_registers[i]

\* RegisterSet::is_empty
is_empty(i) == i \notin DOMAIN m_registers \/ m_registers[i] = Null

Insert ==
    \E i \in Regs, uses \in Ptrs :
        /\ insert(i, uses)
        /\ inserted' = inserted \cup {uses}
        /\ last_op' = <<"insert", i, uses>>
        /\ UNCHANGED notrs

Clear ==
    \E i \in Regs :
        /\ clear(i)
        /\ last_op' = <<"clear", i, get(i)>>
        /\ UNCHANGED inserted
        /\ UNCHANGED notrs

RSNext == Insert \/ Clear

\* ======================================================== consistent_with
Instrs == 1..MaxInstr

\* The tracked values as ObjectUses(i) and MergedUses(I, nullable?), |I| >= 2.
ObjectValues == {[m_tracked_kind |-> "Object", m_id |-> i] : i \in Instrs}

MergedValues ==
    {[m_tracked_kind |-> "Merged", m_instrs |-> I, m_includes_nullable |-> n] :
        I \in {J \in SUBSET Instrs : Cardinality(J) >= 2}, n \in BOOLEAN}

TrackedValues == ObjectValues \cup MergedValues

\* ObjectUses::consistent_with
ObjectUses_consistent_with(this, other) ==
    IF other.m_tracked_kind = "Merged"
    THEN this.m_id \in other.m_instrs
    ELSE this.m_id = other.m_id

\* MergedUses::consistent_with that accepts an ObjectUses of its set.
MergedUses_consistent_with_symmetric(this, other) ==
    IF other.m_tracked_kind = "Merged"
    THEN /\ this.m_instrs = other.m_instrs
         /\ (this.m_includes_nullable => other.m_includes_nullable)
    ELSE other.m_id \in this.m_instrs

\* MergedUses::consistent_with
MergedUses_consistent_with(this, other) ==
    IF other.m_tracked_kind = "Merged"
    THEN /\ this.m_instrs = other.m_instrs
         /\ (this.m_includes_nullable => other.m_includes_nullable)
    ELSE FALSE

\* TrackedUses::consistent_with, dispatched on the receiver's variant
consistent_with(this, other) ==
    IF this.m_tracked_kind = "Object"
    THEN ObjectUses_consistent_with(this, other)
    ELSE MergedUses_consistent_with(this, other)

CWInit ==
    /\ cw_this = [m_tracked_kind |-> "Object", m_id |-> 1]
    /\ cw_other = [m_tracked_kind |-> "Object", m_id |-> 1]
    /\ cw_result = TRUE

ConsistentWith ==
    \E this \in TrackedValues, other \in TrackedValues :
        /\ cw_this' = this
        /\ cw_other' = other
        /\ cw_result' = consistent_with(this, other)
        /\ UNCHANGED notcw

CWNext == ConsistentWith

\* ======================================================= lattice operators
\* enum FlowStatus
FlowStatus == {"Conditional", "AllPaths"}

\* The type a construction instruction creates (its type operand): two
\* instructions may create the same type.
TypeOf(instr) == IF instr % 2 = 1 THEN "T1" ELSE "T2"

\* bottom (nullptr), as a value
Bottom == [m_tracked_kind |-> "Bottom"]

\* ObjectUses::ObjectUses(typ, instr); created_flow starts as AllPaths
ObjectUses(typ, instr) ==
    [m_tracked_kind |-> "Object", m_id |-> instr, m_class_used |-> typ,
     created_flow |-> "AllPaths"]

\* MergedUses::MergedUses(const ObjectUses&, const ObjectUses&)
MergedUses_of(o1, o2) ==
    [m_tracked_kind |-> "Merged",
     m_instrs |-> {o1.m_id, o2.m_id},
     m_classes |-> {o1.m_class_used, o2.m_class_used},
     m_includes_nullable |-> FALSE]

\* A single-ObjectUses constructor that records no instruction.
MergedUses_nullable_empty(o) ==
    [m_tracked_kind |-> "Merged",
     m_instrs |-> {},
     m_classes |-> {o.m_class_used},
     m_includes_nullable |-> TRUE]

\* explicit MergedUses::MergedUses(const ObjectUses&): "Creates a merged
\* object where nullable is true"
MergedUses_nullable(o) ==
    [m_tracked_kind |-> "Merged",
     m_instrs |-> {o.m_id},
     m_classes |-> {o.m_class_used},
     m_includes_nullable |-> TRUE]

\* A join of two paths that reports AllPaths whenever the two sides agree.
paths_flow_agree(a, b) == IF a = b THEN "AllPaths" ELSE "Conditional"

\* Flow status of two alternative paths: Conditional absorbs AllPaths.
paths_flow(a, b) ==
    IF a = "AllPaths" /\ b = "AllPaths" THEN "AllPaths" ELSE "Conditional"

\* Flow status of two blocks in sequence: AllPaths is preserved.
merge_flow(a, b) ==
    IF a = "AllPaths" \/ b = "AllPaths" THEN "AllPaths" ELSE "Conditional"

\* A MergedUses extended to cover the tracked value other.
MergedUses_extend(this, other) ==
    IF other.m_tracked_kind = "Bottom"
    THEN [this EXCEPT !.m_includes_nullable = TRUE]
    ELSE IF other.m_tracked_kind = "Object"
    THEN [this EXCEPT !.m_instrs = @ \cup {other.m_id},
                      !.m_classes = @ \cup {other.m_class_used}]
    ELSE [this EXCEPT !.m_instrs = @ \cup other.m_instrs,
                      !.m_classes = @ \cup other.m_classes,
                      !.m_includes_nullable = @ \/ other.m_includes_nullable]

\* ObjectUses::combine_paths, as the value the receiver's register holds after
ObjectUses_combine_paths(this, other) ==
    IF other.m_tracked_kind = "Bottom"
    THEN [this EXCEPT !.created_flow = "Conditional"]
    ELSE IF other.m_tracked_kind = "Object"
    THEN IF same_instr(this, other)
         THEN [this EXCEPT !.created_flow = paths_flow(@, other.created_flow)]
         ELSE MergedUses_of(this, other)
    ELSE MergedUses_extend(other, this)

\* ObjectUses::merge
ObjectUses_merge(this, other) ==
    IF other.m_tracked_kind = "Bottom"
    THEN [this EXCEPT !.created_flow = "Conditional"]
    ELSE IF other.m_tracked_kind = "Object"
    THEN IF same_instr(this, other)
         THEN [this EXCEPT !.created_flow = merge_flow(@, other.created_flow)]
         ELSE MergedUses_of(this, other)
    ELSE MergedUses_extend(other, this)

\* MergedUses::combine_paths
MergedUses_combine_paths(this, other) == MergedUses_extend(this, other)

\* MergedUses::merge
MergedUses_merge(this, other) == MergedUses_extend(this, other)

\* TrackedUses::combine_paths, dispatched on the receiver's variant
combine_paths(this, other) ==
    IF this.m_tracked_kind = "Object"
    THEN ObjectUses_combine_paths(this, other)
    ELSE MergedUses_combine_paths(this, other)

\* TrackedUses::merge, dispatched on the receiver's variant
merge(this, other) ==
    IF this.m_tracked_kind = "Object"
    THEN ObjectUses_merge(this, other)
    ELSE MergedUses_merge(this, other)

\* ------------------------------------------------------ usage sub-records
Fields == {"f", "g"}
Methods == {"m"}
CallSites == {<<i, 0>> : i \in 1..2}
StoreRegs == 0..1
StoreInstrs == {1}

\* enum SourceStatus
SourceStatus == {"OneReg", "MultipleReg", "Unclear"}

\* The union of two maps to sets, key by key
union_map(a, b) ==
    [k \in DOMAIN a \cup DOMAIN b |->
        IF k \in DOMAIN a /\ k \in DOMAIN b THEN a[k] \cup b[k]
        ELSE IF k \in DOMAIN a THEN a[k] ELSE b[k]]

\* A join of two paths that keeps the status of a field read on one path only.
FieldReads_combine_paths_keeps(this, other) ==
    [f \in DOMAIN this \cup DOMAIN other |->
        IF f \in DOMAIN this /\ f \in DOMAIN other
        THEN paths_flow(this[f], other[f])
        ELSE IF f \in DOMAIN this THEN this[f] ELSE other[f]]

\* FieldReads::combine_paths on m_fields
FieldReads_combine_paths(this, other) ==
    [f \in DOMAIN this \cup DOMAIN other |->
        IF f \in DOMAIN this /\ f \in DOMAIN other
        THEN paths_flow(this[f], other[f])
        ELSE "Conditional"]

\* FieldReads::merge on m_fields
FieldReads_merge(this, other) ==
    [f \in DOMAIN this \cup DOMAIN other |->
        IF f \in DOMAIN this /\ f \in DOMAIN other
        THEN merge_flow(this[f], other[f])
        ELSE IF f \in DOMAIN this THEN this[f] ELSE other[f]]

\* MethodCalls::combine_paths on m_calls
MethodCalls_combine_paths(this, other) ==
    [m \in DOMAIN this \cup DOMAIN other |->
        IF m \in DOMAIN this /\ m \in DOMAIN other
        THEN [call |-> paths_flow(this[m].call, other[m].call),
              call_sites |-> this[m].call_sites \cup other[m].call_sites]
        ELSE IF m \in DOMAIN this
        THEN [this[m] EXCEPT !.call = "Conditional"]
        ELSE [other[m] EXCEPT !.call = "Conditional"]]

\* MethodCalls::merge on m_calls
MethodCalls_merge(this, other) ==
    [m \in DOMAIN this \cup DOMAIN other |->
        IF m \in DOMAIN this /\ m \in DOMAIN other
        THEN [call |-> merge_flow(this[m].call, other[m].call),
              call_sites |-> this[m].call_sites \cup other[m].call_sites]
        ELSE IF m \in DOMAIN this THEN this[m] ELSE other[m]]

\* The source status of a field written from the registers of regs
source_of(regs, a, b) ==
    IF a = "Unclear" \/ b = "Unclear" THEN "Unclear"
    ELSE IF Cardinality(DOMAIN regs) > 1 THEN "MultipleReg"
    ELSE "OneReg"

\* FieldWriteRegs::combine_paths on m_fields
FieldWriteRegs_combine_paths(this, other) ==
    [f \in DOMAIN this \cup DOMAIN other |->
        IF f \in DOMAIN this /\ f \in DOMAIN other
        THEN [regs |-> union_map(this[f].regs, other[f].regs),
              set |-> paths_flow(this[f].set, other[f].set),
              source |-> source_of(union_map(this[f].regs, other[f].regs),
                                   this[f].source, other[f].source)]
        ELSE IF f \in DOMAIN this
        THEN [this[f] EXCEPT !.set = "Conditional"]
        ELSE [other[f] EXCEPT !.set = "Conditional"]]

\* FieldWriteRegs::merge on m_fields
FieldWriteRegs_merge(this, other) ==
    [f \in DOMAIN this \cup DOMAIN other |->
        IF f \in DOMAIN this /\ f \in DOMAIN other
        THEN [regs |-> union_map(this[f].regs, other[f].regs),
              set |-> merge_flow(this[f].set, other[f].set),
              source |-> source_of(union_map(this[f].regs, other[f].regs),
                                   this[f].source, other[f].source)]
        ELSE IF f \in DOMAIN this THEN this[f] ELSE other[f]]

\* The sub-records a block can have built: maps over some of the keys.
FieldReadMaps == UNION {[S -> FlowStatus] : S \in SUBSET Fields}

MethodCallValues ==
    [call : FlowStatus, call_sites : (SUBSET CallSites) \ {{}}]

CallMaps == UNION {[S -> MethodCallValues] : S \in SUBSET Methods}

FieldSetRegs ==
    UNION {[S -> {StoreInstrs}] : S \in (SUBSET StoreRegs) \ {{}}}

FieldSetValues ==
    UNION {{[regs |-> r, set |-> fl, source |-> src] :
               fl \in FlowStatus,
               src \in {source_of(r, "OneReg", "OneReg"), "Unclear"}} :
           r \in FieldSetRegs}

FieldSetMaps == UNION {[S -> FieldSetValues] : S \in SUBSET {"f"}}

\* ---------------------------------------- the operators applied to inputs
IsTracked(v) ==
    /\ "m_tracked_kind" \in DOMAIN v
    /\ v.m_tracked_kind \in {"Object", "Merged"}

IsMerged(v) ==
    /\ "m_tracked_kind" \in DOMAIN v
    /\ v.m_tracked_kind = "Merged"

\* The ObjectUses a construction instruction makes
NewObjects == {ObjectUses(TypeOf(i), i) : i \in Instrs}

\* The tracked values at hand: fresh ObjectUses and the values of the last
\* operation.
LtTracked ==
    NewObjects \cup {v \in {lt_x, lt_y, lt_once, lt_twice} : IsTracked(v)}

\* The sub-records at hand for the operations named in ops: the ones a
\* block can have built, and the results of the last such operation.
LtRecords(ops, built, field) ==
    built \cup {v[field] : v \in {w \in {lt_once, lt_twice} :
                                    lt_op \in ops /\ field \in DOMAIN w}}

LtFieldReads ==
    LtRecords({"FieldReads::combine_paths", "FieldReads::merge"},
              FieldReadMaps, "m_fields")

LtMethodCalls ==
    LtRecords({"MethodCalls::combine_paths", "MethodCalls::merge"},
              CallMaps, "m_calls")

LtFieldWriteRegs ==
    LtRecords({"FieldWriteRegs::combine_paths", "FieldWriteRegs::merge"},
              FieldSetMaps, "m_fields")

LTInit ==
    /\ lt_op = "none"
    /\ lt_x = Bottom
    /\ lt_y = Bottom
    /\ lt_once = Bottom
    /\ lt_twice = Bottom

Applied(op, x, y, once, twice) ==
    /\ lt_op' = op
    /\ lt_x' = x
    /\ lt_y' = y
    /\ lt_once' = once
    /\ lt_twice' = twice
    /\ UNCHANGED notlt

CombinePaths ==
    \E x \in LtTracked, y \in LtTracked \cup {Bottom} :
        Applied("combine_paths", x, y, combine_paths(x, y),
                combine_paths(combine_paths(x, y), y))

Merge ==
    \E x \in LtTracked, y \in LtTracked \cup {Bottom} :
        Applied("merge", x, y, merge(x, y), merge(merge(x, y), y))

FieldReadsOp ==
    \E x \in LtFieldReads, y \in LtFieldReads :
        \/ Applied("FieldReads::combine_paths",
                   [m_fields |-> x], [m_fields |-> y],
                   [m_fields |-> FieldReads_combine_paths(x, y)],
                   [m_fields |-> FieldReads_combine_paths(
                                    FieldReads_combine_paths(x, y), y)])
        \/ Applied("FieldReads::merge",
                   [m_fields |-> x], [m_fields |-> y],
                   [m_fields |-> FieldReads_merge(x, y)],
                   [m_fields |-> FieldReads_merge(FieldReads_merge(x, y), y)])

MethodCallsOp ==
    \E x \in LtMethodCalls, y \in LtMethodCalls :
        \/ Applied("MethodCalls::combine_paths",
                   [m_calls |-> x], [m_calls |-> y],
                   [m_calls |-> MethodCalls_combine_paths(x, y)],
                   [m_calls |-> MethodCalls_combine_paths(
                                   MethodCalls_combine_paths(x, y), y)])
        \/ Applied("MethodCalls::merge",
                   [m_calls |-> x], [m_calls |-> y],
                   [m_calls |-> MethodCalls_merge(x, y)],
                   [m_calls |-> MethodCalls_merge(MethodCalls_merge(x, y), y)])

FieldWriteRegsOp ==
    \E x \in LtFieldWriteRegs, y \in LtFieldWriteRegs :
        \/ Applied("FieldWriteRegs::combine_paths",
                   [m_fields |-> x], [m_fields |-> y],
                   [m_fields |-> FieldWriteRegs_combine_paths(x, y)],
                   [m_fields |-> FieldWriteRegs_combine_paths(
                                    FieldWriteRegs_combine_paths(x, y), y)])
        \/ Applied("FieldWriteRegs::merge",
                   [m_fields |-> x], [m_fields |-> y],
                   [m_fields |-> FieldWriteRegs_merge(x, y)],
                   [m_fields |-> FieldWriteRegs_merge(
                                    FieldWriteRegs_merge(x, y), y)])

LTNext ==
    \/ CombinePaths
    \/ Merge
    \/ FieldReadsOp
    \/ MethodCallsOp
    \/ FieldWriteRegsOp

\* ================================== merge_registers, promoted-merged store
\* MergedUsedSet::find: the stored records equal to uses under TrackedComparer
MergedUsedSet_find(set, uses) == {e \in set : same_instrs(e, uses)}

\* An insert that compares whole records.
MergedUsedSet_insert_always(set, uses) == set \cup {uses}

\* MergedUsedSet::insert: a record with the same instructions keeps its place
MergedUsedSet_insert(set, uses) ==
    IF MergedUsedSet_find(set, uses) # {} THEN set ELSE set \cup {uses}

\* The value a register holds after joining its value a with the value b the
\* other register set holds
joined(a, b) ==
    IF a = Bottom /\ b = Bottom THEN Bottom
    ELSE IF a = Bottom THEN combine_paths(b, a)
    ELSE combine_paths(a, b)

\* A MergedUses made for register r is stored globally; the register holds
\* the stored record of its instructions, made nullable if uses is.
store_merged(st, r, uses, promoted) ==
    LET inserted_set == MergedUsedSet_insert(st.stored, uses)
        shared == CHOOSE e \in MergedUsedSet_find(inserted_set, uses) : TRUE
        marked == [shared EXCEPT !.m_includes_nullable =
                                     @ \/ uses.m_includes_nullable]
    IN  [registers |->
             [q \in DOMAIN st.registers |->
                 IF q = r \/ st.registers[q] = shared
                 THEN marked ELSE st.registers[q]],
         stored |-> (inserted_set \ {shared}) \cup {marked},
         found |-> IF promoted /\ MergedUsedSet_find(st.stored, uses) # {}
                   THEN st.found \cup {r} ELSE st.found]

\* One register of merge_registers
merge_register(st, r, b) ==
    LET a == st.registers[r]
        v == joined(a, b)
    IN  IF IsMerged(v)
        THEN store_merged(st, r, v,
                          a.m_tracked_kind = "Object"
                              /\ b.m_tracked_kind = "Object")
        ELSE [st EXCEPT !.registers[r] = v]

\* RegisterSet::merge_registers(other, stored): register by register
RECURSIVE merge_registers(_, _, _)
merge_registers(st, other, r) ==
    IF r \notin DOMAIN st.registers THEN st
    ELSE merge_registers(merge_register(st, r, other[r]), other, r + 1)

\* The registers and the construction instructions of the analyzed method
StRegs == 0..1
StInstrs == 1..2
StObjects == {ObjectUses(TypeOf(i), i) : i \in StInstrs}

STInit ==
    /\ st_registers = [r \in StRegs |-> Bottom]
    /\ m_stored_mergeds = {}
    /\ st_op = "none"
    /\ st_found = {}

\* Block analyzer, construction instruction: a new ObjectUses in register r
Construction ==
    \E r \in StRegs, o \in StObjects :
        /\ st_registers' = [st_registers EXCEPT ![r] = o]
        /\ st_op' = "construction"
        /\ st_found' = {}
        /\ UNCHANGED m_stored_mergeds
        /\ UNCHANGED notst

\* A register's ObjectUses is joined with null: MergedUses(const ObjectUses&)
MakeNullable ==
    \E r \in StRegs :
        /\ st_registers[r].m_tracked_kind = "Object"
        /\ LET st == store_merged(
                         [registers |-> st_registers,
                          stored |-> m_stored_mergeds, found |-> {}],
                         r, MergedUses_nullable(st_registers[r]), FALSE)
           IN  /\ st_registers' = st.registers
               /\ m_stored_mergeds' = st.stored
        /\ st_op' = "nullable"
        /\ st_found' = {}
        /\ UNCHANGED notst

\* The register sets another path can hand to merge_registers
OtherRegisters == [StRegs -> StObjects \cup m_stored_mergeds \cup {Bottom}]

MergeRegisters ==
    \E other \in OtherRegisters :
        /\ LET st == merge_registers(
                         [registers |-> st_registers,
                          stored |-> m_stored_mergeds, found |-> {}],
                         other, 0)
           IN  /\ st_registers' = st.registers
               /\ m_stored_mergeds' = st.stored
               /\ st_found' = st.found
        /\ st_op' = "merge_registers"
        /\ UNCHANGED notst

STNext == Construction \/ MakeNullable \/ MergeRegisters

\* ======================================================== TrackedComparer
EqInit ==
    /\ eq_l = Null
    /\ eq_r = Null
    /\ eq_result = TRUE

\* TrackedComparer()(l, r) on any two shared pointers, null included
Compare ==
    \E l \in DOMAIN Heap \cup {Null}, r \in DOMAIN Heap \cup {Null} :
        /\ eq_l' = l
        /\ eq_r' = r
        /\ eq_result' = TrackedComparer(l, r)
        /\ UNCHANGED noteq

EqNext == Compare

\* ================================================================ escapes
\* The instructions of the analyzed method that use the tracked value, each
\* with the register it reads the value from.
EscProgram ==
    << [op |-> "invoke-virtual", method |-> "m1", src |-> 0],
       [op |-> "invoke-static", method |-> "m1", src |-> 0],
       [op |-> "invoke-static", method |-> "m2", src |-> 1],
       [op |-> "invoke-virtual", method |-> "m2", src |-> 1],
       [op |-> "return", src |-> 0],
       [op |-> "aput", src |-> 0],
       [op |-> "iput", field |-> "f", src |-> 0] >>

EscMethods == {"m1", "m2"}

\* An Escapes with nothing recorded
NoEscapes ==
    [via_return |-> "none", return_instrs |-> {}, via_array_write |-> << >>,
     via_field_set |-> << >>, via_vmethod_call |-> << >>,
     via_smethod_call |-> << >>]

\* A map with key k set to v
with_key(map, k, v) ==
    [x \in DOMAIN map \cup {k} |-> IF x = k THEN v ELSE map[x]]

\* MethodCalls::add_call on a CallMap
add_call(calls, method, in_reg, instr) ==
    with_key(calls, method,
             [call |-> "AllPaths",
              call_sites |->
                  (IF method \in DOMAIN calls
                   THEN calls[method].call_sites ELSE {})
                  \cup {<<instr, in_reg>>}])

\* FieldWriteRegs::add_field on a FieldSetMap
add_field(fields, field, reg, instr) ==
    LET old == IF field \in DOMAIN fields THEN fields[field].regs ELSE << >>
        regs == with_key(old, reg,
                         (IF reg \in DOMAIN old THEN old[reg] ELSE {})
                         \cup {instr})
    IN  with_key(fields, field,
                 [regs |-> regs, set |-> "AllPaths",
                  source |-> source_of(regs, "OneReg", "OneReg")])

\* Escapes::add_return
add_return(esc, instr) ==
    [esc EXCEPT !.via_return = "AllPaths", !.return_instrs = @ \cup {instr}]

\* Escapes::add_array
add_array(esc, instr) ==
    [esc EXCEPT !.via_array_write = with_key(@, instr, "AllPaths")]

\* Escapes::add_field_set
add_field_set(esc, field, reg, instr) ==
    [esc EXCEPT !.via_field_set = add_field(@, field, reg, instr)]

\* Escapes::add_dmethod
add_dmethod(esc, method, object, instr) ==
    [esc EXCEPT !.via_vmethod_call = add_call(@, method, object, instr)]

\* Escapes::add_smethod
add_smethod(esc, method, object, instr) ==
    [esc EXCEPT !.via_smethod_call = add_call(@, method, object, instr)]

\* The call sites of a CallMap
call_sites_of(calls) == UNION {calls[m].call_sites : m \in DOMAIN calls}

\* Escapes::get_escape_instructions, as a set of <<instruction, register>>
get_escape_instructions(esc) ==
    {<<i, EscProgram[i].src>> : i \in esc.return_instrs}
    \cup {<<i, EscProgram[i].src>> : i \in DOMAIN esc.via_array_write}
    \cup UNION {UNION {{<<i, q>> : i \in esc.via_field_set[f].regs[q]} :
                         q \in DOMAIN esc.via_field_set[f].regs} :
                   f \in DOMAIN esc.via_field_set}
    \cup call_sites_of(esc.via_vmethod_call)
    \cup call_sites_of(esc.via_smethod_call)

\* An analyzer that records an invoke of a safe callee in both records.
invoke_records_both(method) ==
    IF method \in m_safe_escapes
    THEN {"safe_escapes", "escapes"} ELSE {"escapes"}

\* Block analyzer, invoke with the tracked value as an argument: the record
\* the escape goes to
invoke_records(method) ==
    IF method \in m_safe_escapes THEN {"safe_escapes"} ELSE {"escapes"}

\* The escape of instruction i recorded in esc
recorded(esc, i) ==
    LET insn == EscProgram[i]
    IN  CASE insn.op = "invoke-virtual" ->
                 add_dmethod(esc, insn.method, insn.src, i)
          [] insn.op = "invoke-static" ->
                 add_smethod(esc, insn.method, insn.src, i)
          [] insn.op = "return" -> add_return(esc, i)
          [] insn.op = "aput" -> add_array(esc, i)
          [] insn.op = "iput" -> add_field_set(esc, insn.field, insn.src, i)

\* A ClassInitCounter constructed with no safe escapes
ESInit ==
    /\ m_safe_escapes = {}
    /\ escapes = NoEscapes
    /\ safe_escapes = NoEscapes
    /\ analyzed = {}

\* A ClassInitCounter constructed with any set of safe escapes
ESInitAny ==
    /\ m_safe_escapes \in SUBSET EscMethods
    /\ escapes = NoEscapes
    /\ safe_escapes = NoEscapes
    /\ analyzed = {}

\* Block analyzer: one instruction that passes the tracked value on
AnalyzeEscape ==
    \E i \in DOMAIN EscProgram :
        LET insn == EscProgram[i]
            into == IF insn.op \in {"invoke-virtual", "invoke-static"}
                    THEN invoke_records(insn.method)
                    ELSE {"escapes"}
        IN  /\ escapes' = IF "escapes" \in into
                          THEN recorded(escapes, i) ELSE escapes
            /\ safe_escapes' = IF "safe_escapes" \in into
                               THEN recorded(safe_escapes, i)
                               ELSE safe_escapes
            /\ analyzed' = analyzed \cup {i}
            /\ UNCHANGED m_safe_escapes
            /\ UNCHANGED notes

ESNext == AnalyzeEscape

\* ===================================== analyze_block: the CFG fixpoint
\* The blocks of the analyzed method; the entry block; its registers; what a
\* block's one instruction can be.
FpBlocks == 1..3
FpEntry == 1
FpRegs == 0..0
FpInsns == {"nop", "new"}

\* A block ends in a return, a goto or a conditional branch
FpSuccessors == {S \in SUBSET FpBlocks : Cardinality(S) <= 2}

\* RegisterSet(): every register is bottom
FpEmpty == [r \in FpRegs |-> Bottom]

\* RegisterSet::combine_paths, register by register
RegisterSet_combine_paths(this, other) ==
    [r \in FpRegs |-> joined(this[r], other[r])]

\* The register file after a block, register by register: what the block
\* left in the register, composed with what it held at the block's entry
RegisterSet_merge(this, other) ==
    [r \in FpRegs |->
        IF this[r] = Bottom THEN other[r] ELSE merge(this[r], other[r])]

\* A test that never finds two register files consistent.
RegisterSet_consistent_with_never(this, other) ==
    \A r \in FpRegs : this[r] # this[r]

\* RegisterSet::consistent_with: consistent in all registers that are
\* non-empty in both
RegisterSet_consistent_with(this, other) ==
    \A r \in FpRegs :
        (this[r] # Bottom /\ other[r] # Bottom) =>
            consistent_with(this[r], other[r])

\* RegisterSet::same_uses: the usage records of both are equal
same_uses(this, other) ==
    {this[r] : r \in FpRegs} = {other[r] : r \in FpRegs}

\* Block analyzer on the one instruction of block b: a construction into
\* register 0, or an instruction that touches no register
analyze_instructions(b, registers) ==
    IF program[b] = "new"
    THEN [registers EXCEPT ![0] = ObjectUses(TypeOf(b), b)]
    ELSE registers

predecessors(b) == {p \in FpBlocks : b \in cfg[p]}

\* The result a predecessor hands on: bottom while it has none
final_result(p) ==
    IF p \in DOMAIN visited_blocks
    THEN visited_blocks[p].final_result_registers
    ELSE FpEmpty

first_of(ps) == CHOOSE p \in ps : \A q \in ps : p <= q

\* The combine_paths fold over the results of the blocks ps
RECURSIVE fold_paths(_, _)
fold_paths(acc, ps) ==
    IF ps = {} THEN acc
    ELSE fold_paths(RegisterSet_combine_paths(acc, final_result(first_of(ps))),
                    ps \ {first_of(ps)})

\* in(B): the entry block is seeded with the empty register file
input_registers(b) ==
    LET ps == predecessors(b)
    IN  IF b = FpEntry THEN fold_paths(FpEmpty, ps)
        ELSE fold_paths(final_result(first_of(ps)), ps \ {first_of(ps)})

\* A revisited block whose input says nothing new
nothing_new(b) ==
    /\ b \in DOMAIN visited_blocks
    /\ RegisterSet_consistent_with(input_registers(b),
                                   visited_blocks[b].input_registers)
    /\ same_uses(input_registers(b), visited_blocks[b].input_registers)

\* No method is under analysis
FPInit ==
    /\ cfg = [b \in FpBlocks |-> {}]
    /\ program = [b \in FpBlocks |-> "nop"]
    /\ worklist = << >>
    /\ visited_blocks = << >>
    /\ skipped = {}

\* The analysis of any method starts: the worklist holds its entry block
FPInitAny ==
    /\ cfg \in [FpBlocks -> FpSuccessors]
    /\ program \in [FpBlocks -> FpInsns]
    /\ worklist = <<FpEntry>>
    /\ visited_blocks = << >>
    /\ skipped = {}

\* The worklist after pushing the blocks bs, lowest first, each block held
\* at most once
RECURSIVE pushed_all(_, _)
pushed_all(list, bs) ==
    IF bs = {} THEN list
    ELSE pushed_all(IF \E i \in DOMAIN list : list[i] = first_of(bs)
                    THEN list ELSE Append(list, first_of(bs)),
                    bs \ {first_of(bs)})

\* A popped block that was visited and whose input says nothing new
SkipBlock ==
    /\ worklist # << >>
    /\ nothing_new(Head(worklist))
    /\ worklist' = Tail(worklist)
    /\ skipped' = skipped \cup {Head(worklist)}
    /\ UNCHANGED <<cfg, program, visited_blocks>>
    /\ UNCHANGED notfp

\* A popped block is analyzed and its successors are pushed
AnalyzeBlock ==
    /\ worklist # << >>
    /\ ~nothing_new(Head(worklist))
    /\ LET b == Head(worklist)
           input == input_registers(b)
           output == analyze_instructions(b, input)
           entry == [input_registers |-> input,
                     basic_block_registers |-> output,
                     final_result_registers |->
                         RegisterSet_merge(input, output)]
       IN  /\ visited_blocks' =
                   [v \in DOMAIN visited_blocks \cup {b} |->
                       IF v = b THEN entry ELSE visited_blocks[v]]
           /\ worklist' = pushed_all(Tail(worklist), cfg[b])
    /\ UNCHANGED <<cfg, program, skipped>>
    /\ UNCHANGED notfp

FPNext == SkipBlock \/ AnalyzeBlock

\* ========================================================= specifications
Init ==
    /\ WQInit /\ RSInit /\ CWInit /\ LTInit /\ STInit /\ EqInit /\ ESInit
    /\ FPInit

Next == WQNext

\* The work queue: construction, add_item, run_all and its worker threads.
Spec == Init /\ [][Next]_vars

\* The same under fair scheduling of the calling thread and of every worker.
FairSpec ==
    /\ Spec
    /\ WF_vars(MainStep)
    /\ \A w \in 0..(MaxThreads - 1) :
           WF_vars(w \in Workers /\ WorkerStep(w))

\* The work queue with taking a queue's lock and working under it as two
\* steps.
SpecLocks == Init /\ [][LocksNext]_vars

\* A RegisterSet under any sequence of insert and clear.
SpecRS == Init /\ [][RSNext]_vars

\* consistent_with applied to any two tracked values.
SpecCW == Init /\ [][CWNext]_vars

\* combine_paths and merge applied, once and twice, to tracked values and to
\* usage sub-records.
SpecLattice == Init /\ [][LTNext]_vars

\* The registers of one method under construction instructions, joins with
\* null and merge_registers, with the method's promoted-merged store.
SpecStore == Init /\ [][STNext]_vars

\* TrackedComparer applied to any two shared pointers.
SpecEq == Init /\ [][EqNext]_vars

\* A ClassInitCounter constructed with any set of safe escapes, before any
\* instruction is analyzed
InitEscapes ==
    /\ WQInit /\ RSInit /\ CWInit /\ LTInit /\ STInit /\ EqInit /\ ESInitAny
    /\ FPInit

\* The escapes the block analyzer records on one tracked value.
SpecEscapes == InitEscapes /\ [][ESNext]_vars

\* The analysis of any method of FpBlocks blocks is about to start
InitFixpoint ==
    /\ WQInit /\ RSInit /\ CWInit /\ LTInit /\ STInit /\ EqInit /\ ESInit
    /\ FPInitAny

\* The fixpoint of analyze_block over any method of FpBlocks blocks, one
\* block at a time.
SpecFixpoint == InitFixpoint /\ [][FPNext]_vars

\* The same when the driver keeps popping while the worklist holds a block.
FairFixpoint == SpecFixpoint /\ WF_vars(FPNext)

\* ============================================================= properties
AllExited == \A w \in Workers : wpc[w] = "exited"

Created == 1..(next_task - 1)

\* C1: no task is ever handed to the mapper twice, and when run_all has
\* returned every task created by add_item or push_task has been handed to
\* the mapper exactly once and no queue holds a task.
C1_ExactlyOnce ==
    /\ \A t \in TaskIds : consumed[t] <= 1
    /\ main_pc = "returned" =>
           /\ \A t \in Created : consumed[t] = 1
           /\ \A w \in Workers : m_queue[w] = << >>

C1_Witness ==
    /\ main_pc = "returned"
    /\ m_num_threads >= 2
    /\ next_task >= 3
    /\ \A t \in Created : consumed[t] = 1

\* The reduction, in some order, of seed with the mapper outputs of tasks 1..n.
RECURSIVE ReduceOutputs(_, _, _)
ReduceOutputs(kind, seed, n) ==
    IF n = 0 THEN seed
    ELSE Reduce(kind, ReduceOutputs(kind, seed, n - 1), Mapper(n))

\* C2 (as stated): the value run_all returns is the reduction of init_output,
\* contributing once, with the mapper outputs of all tasks.
C2_InitOnce ==
    main_pc = "returned" =>
        result = ReduceOutputs(m_reducer, init_output, next_task - 1)

\* The value run_all returns on a pool of one thread: the one worker seeds
\* m_result with init_output and consumes every task, and the final fold
\* seeds with init_output again.
SingleThreadResult ==
    Reduce(m_reducer, init_output,
           ReduceOutputs(m_reducer, init_output, next_task - 1))

\* C3 (as stated): with the same reducer, init_output and tasks, run_all on
\* any number of threads returns what it returns on one thread.
C3_SameAsSingleThread ==
    main_pc = "returned" => result = SingleThreadResult

\* C4: under fair scheduling a task pushed with push_task by a running
\* mapper is eventually consumed: whenever a pushed task waits to be consumed,
\* a state follows in which every pushed task has been consumed.
C4_PushedConsumed ==
    (\E t \in pushed : consumed[t] = 0) ~> (\A t \in pushed : consumed[t] = 1)

C4_Witness ==
    /\ m_num_threads >= 2
    /\ \E t \in pushed_alone : consumed[t] = 1

\* C5: under fair scheduling, once run_all is entered every worker exits and
\* run_all returns; the final fold and the return come only after every
\* worker has exited.
C5_Terminates ==
    /\ (main_pc = "spawning") ~> (main_pc = "returned" /\ AllExited)
    /\ [](main_pc \in {"reducing", "returned"} => AllExited)

C5_Witness ==
    /\ main_pc = "returned"
    /\ m_num_threads >= 2
    /\ pushed # {}
    /\ AllExited

\* The worker whose queue holds task t.
QueueOf(t) ==
    CHOOSE w \in Workers : \E k \in 1..Len(m_queue[w]) : m_queue[w][k] = t

\* C6: before run_all, after k add_item calls on N workers, each item is
\* in exactly one queue, consecutive items are in consecutive queues modulo N,
\* and every queue holds floor(k/N) or ceil(k/N) items.
C6_RoundRobin ==
    main_pc = "constructed" =>
        LET k == next_task - 1
            N == m_num_threads
        IN  /\ \A t \in 1..k :
                   Cardinality({<<w, j>> \in Workers \X (1..k) :
                       j <= Len(m_queue[w]) /\ m_queue[w][j] = t}) = 1
            /\ \A t \in 1..(k - 1) : QueueOf(t + 1) = (QueueOf(t) + 1) % N
            /\ \A w \in Workers :
                   Len(m_queue[w]) \in {k \div N, (k + N - 1) \div N}

C6_Witness ==
    /\ main_pc = "constructed"
    /\ m_num_threads = 2
    /\ next_task = 3
    /\ Len(m_queue[0]) = 1
    /\ Len(m_queue[1]) = 1

\* C7: a constructor call with num_threads < 1 fails: no WorkerState
\* exists, data_initializer was never called, and the caller never holds a
\* WorkQueue (it is never at a point where add_item or run_all can be called).
C7_FailsFast ==
    (main_pc # "new" /\ num_threads_arg < 1) =>
        /\ main_pc = "failed"
        /\ DOMAIN m_queue = {}
        /\ DOMAIN m_data = {}
        /\ data_init_calls = 0

C7_Witness ==
    /\ main_pc = "failed"
    /\ num_threads_arg = 0

\* C8: every value ever passed to insert is still in the all-seen set,
\* whatever inserts and clears followed (membership as the set has it: an
\* element of the same variant and construction-site set).
C8_AllSeenKeeps ==
    \A v \in inserted : UsedSet_count(m_all_uses, v)

C8_Witness ==
    /\ last_op[1] = "clear"
    /\ last_op[3] # Null
    /\ last_op[3] \in inserted
    /\ m_registers[last_op[2]] = Null
    /\ UsedSet_count(m_all_uses, last_op[3])

\* C9: every non-bottom value held in a register is in the all-seen set
\* (membership as the set has it).
C9_RegistersSeen ==
    \A r \in DOMAIN m_registers :
        m_registers[r] # Null => UsedSet_count(m_all_uses, m_registers[r])

C9_Witness ==
    \E r \in DOMAIN m_registers :
        /\ m_registers[r] # Null
        /\ m_registers[r] \notin m_all_uses
        /\ UsedSet_count(m_all_uses, m_registers[r])

\* C10: an ObjectUses of instruction i is consistent_with every MergedUses
\* whose set contains i, no such MergedUses is consistent_with it, and it is
\* not consistent_with an ObjectUses of another instruction.
C10_Asymmetric ==
    /\ (/\ cw_this.m_tracked_kind = "Object"
        /\ cw_other.m_tracked_kind = "Merged"
        /\ cw_this.m_id \in cw_other.m_instrs) => cw_result
    /\ (/\ cw_this.m_tracked_kind = "Merged"
        /\ cw_other.m_tracked_kind = "Object"
        /\ cw_other.m_id \in cw_this.m_instrs) => ~cw_result
    /\ (/\ cw_this.m_tracked_kind = "Object"
        /\ cw_other.m_tracked_kind = "Object"
        /\ cw_this.m_id # cw_other.m_id) => ~cw_result

C10_Witness ==
    /\ cw_this.m_tracked_kind = "Merged"
    /\ cw_other.m_tracked_kind = "Object"
    /\ cw_other.m_id \in cw_this.m_instrs
    /\ ~cw_result

\* C12: combine_paths and merge are idempotent: applying the operation a
\* second time with the same argument leaves the receiver as the first
\* application left it, for tracked values and for the usage sub-records.
C12_Idempotent == lt_twice = lt_once

C12_Witness ==
    /\ lt_op = "combine_paths"
    /\ lt_x.m_tracked_kind = "Object"
    /\ lt_x.created_flow = "Conditional"
    /\ lt_y.m_tracked_kind = "Object"
    /\ lt_y.created_flow = "Conditional"
    /\ same_instr(lt_x, lt_y)
    /\ lt_once.created_flow = "Conditional"

\* The MergedUses records that exist: in a register or in the store.
StMerged ==
    m_stored_mergeds \cup {st_registers[r] : r \in {q \in StRegs : IsMerged(st_registers[q])}}

TypesOf(instrs) == {TypeOf(i) : i \in instrs}

C15_EqualBySites ==
    eq_result =
        IF eq_l = Null \/ eq_r = Null THEN eq_l = Null /\ eq_r = Null
        ELSE /\ Heap[eq_l].m_tracked_kind = Heap[eq_r].m_tracked_kind
             /\ Heap[eq_l].m_tracked_kind = "Object" =>
                    Heap[eq_l].m_id = Heap[eq_r].m_id
             /\ Heap[eq_l].m_tracked_kind = "Merged" =>
                    Heap[eq_l].m_instrs = Heap[eq_r].m_instrs

C15_Witness ==
    /\ eq_l # Null
    /\ eq_r # Null
    /\ eq_result
    /\ Heap[eq_l].m_tracked_kind = "Merged"
    /\ Heap[eq_l].m_includes_nullable # Heap[eq_r].m_includes_nullable
    /\ Heap[eq_l].fields_read # Heap[eq_r].fields_read

\* The instructions an Escapes names
escape_instrs(esc) == {site[1] : site \in get_escape_instructions(esc)}

\* C14: no instruction is in both the escapes and the safe_escapes of a
\* tracked value: an analyzed invoke whose callee is in the safe-escape set
\* is in safe_escapes only, every other analyzed escape is in escapes only.
C14_Disjoint ==
    /\ escape_instrs(escapes) \cap escape_instrs(safe_escapes) = {}
    /\ \A i \in analyzed :
           IF /\ EscProgram[i].op \in {"invoke-virtual", "invoke-static"}
              /\ EscProgram[i].method \in m_safe_escapes
           THEN /\ i \in escape_instrs(safe_escapes)
                /\ i \notin escape_instrs(escapes)
           ELSE /\ i \in escape_instrs(escapes)
                /\ i \notin escape_instrs(safe_escapes)

C14_Witness ==
    /\ m_safe_escapes = {"m1"}
    /\ analyzed = DOMAIN EscProgram
    /\ escape_instrs(safe_escapes) = {1, 2}
    /\ escape_instrs(escapes) = {3, 4, 5, 6, 7}

\* C16: a worker has returned from the worker lambda only after one whole
\* pass over attempts in which every pop_task, on its own queue too, returned
\* no task; a worker that has returned stays so and touches nothing again.
C16_ExitAfterEmptyWalk ==
    /\ [](\A w \in Workers :
              wpc[w] = "exited" =>
                  /\ walked[w] = attempts[w]
                  /\ {walked[w][k] : k \in DOMAIN walked[w]} = Workers)
    /\ [][\A w \in Workers :
              wpc[w] = "exited" =>
                  /\ wpc'[w] = "exited"
                  /\ walked'[w] = walked[w]
                  /\ m_result'[w] = m_result[w]
                  /\ cur_task'[w] = cur_task[w]]_vars

C16_Witness ==
    \E w \in Workers :
        /\ m_num_threads >= 2
        /\ wpc[w] = "exited"
        /\ m_result[w] > init_output
        /\ \E v \in Workers : wpc[v] = "mapper"

\* C17: the order in which a worker visits the queues is a permutation of
\* 0..N-1 that starts with its own index; when a consumed task is done the
\* next pass starts at the head of that order again; and a worker gets a
\* task from another worker's queue only in a pass in which it has popped its
\* own queue first and found it empty.
C17_OwnQueueFirst ==
    /\ [](\A w \in Workers :
              wpc[w] \in {"walk", "mapper", "exited"} =>
                  /\ attempts[w] \in Shuffles(m_num_threads)
                  /\ attempts[w][1] = w)
    /\ [][\A w \in Workers :
              /\ (wpc[w] = "mapper" /\ wpc'[w] # "mapper") =>
                     /\ wpc'[w] = "walk"
                     /\ pos'[w] = 1
                     /\ walked'[w] = << >>
              /\ (wpc[w] = "walk" /\ wpc'[w] = "mapper"
                      /\ attempts[w][pos[w]] # w) =>
                     /\ walked[w] # << >>
                     /\ walked[w][1] = w]_vars

C17_Witness ==
    \E w \in Workers :
        /\ wpc[w] = "mapper"
        /\ attempts[w][pos[w]] # w
        /\ walked[w] # << >>
        /\ walked[w][1] = w
        /\ m_result[w] > init_output

\* C19: a task pushed from a running mapper is appended to the queue of the
\* worker that runs the mapper, whichever queue the running task was popped
\* from, and the push changes no other queue.
C19_PushToOwnQueue ==
    [][\A t \in TaskIds :
           (t \notin DOMAIN pushed_by /\ t \in DOMAIN pushed_by') =>
               /\ wpc[pushed_by'[t]] = "mapper"
               /\ m_queue'[pushed_by'[t]] = Append(m_queue[pushed_by'[t]], t)
               /\ \A v \in Workers \ {pushed_by'[t]} :
                      m_queue'[v] = m_queue[v]]_vars

C19_Witness ==
    \E w \in Workers, t \in DOMAIN pushed_by :
        /\ wpc[w] = "mapper"
        /\ attempts[w][pos[w]] # w
        /\ pushed_by[t] = w
        /\ m_queue[w] = <<t>>
        /\ \A v \in Workers \ {w} : m_queue[v] = << >>

\* Thread w is in a pop_task or push_task call on queue q, past the lock_guard
Inside(w, q) ==
    \/ wpc[w] = "popping" /\ attempts[w][pos[w]] = q
    \/ wpc[w] = "pushing" /\ q = w

\* C18: while run_all runs, a thread inside pop_task or push_task on a queue
\* holds that queue's lock and is the only holder, so no two threads are
\* inside an operation on one queue; a queue changes only under its lock;
\* and no thread holds the locks of two queues.
C18_UnderOwnLock ==
    /\ [](\A w \in Workers, q \in Workers :
              Inside(w, q) => m_queue_mtx[q] = {w})
    /\ [](\A w \in Workers :
              Cardinality({q \in Workers : w \in m_queue_mtx[q]}) <= 1)
    /\ [][\A q \in Workers :
              (main_pc \in {"spawning", "joining"}
                   /\ m_queue'[q] # m_queue[q]) =>
                  \E w \in Workers : Inside(w, q) /\ m_queue_mtx[q] = {w}]_vars

C18_Witness ==
    \E w, v \in Workers :
        /\ w # v
        /\ wpc[w] = "pushing"
        /\ m_queue_mtx[w] = {w}
        /\ wpc[v] = "walk"
        /\ attempts[v][pos[v]] = w

\* C13: the fixpoint of analyze_block over the CFG of a method ends, loops
\* and back-edges included: the worklist becomes empty, and stays empty.
C13_Terminates == <>[](worklist = << >>)

C13_Witness ==
    /\ worklist = << >>
    /\ 1 \in cfg[2] /\ 2 \in cfg[1]
    /\ 3 \in cfg[3] /\ 3 \in cfg[2]
    /\ DOMAIN visited_blocks = FpBlocks
    /\ skipped # {}
    /\ \E b \in FpBlocks :
           visited_blocks[b].input_registers[0].m_tracked_kind = "Merged"

\* The map a usage sub-record holds, and the flow status of one of its entries
\* under the operation last applied.
SubRecordMap(v) == IF "m_calls" \in DOMAIN v THEN v.m_calls ELSE v.m_fields

SubRecordFlow(e) ==
    CASE lt_op = "FieldReads::combine_paths" -> e
      [] lt_op = "MethodCalls::combine_paths" -> e.call
      [] lt_op = "FieldWriteRegs::combine_paths" -> e.set

\* C21: combine_paths of the usage sub-records of two sibling paths drops no
\* field or method of either record, and a field or method that is missing
\* from one of the two records, or Conditional in one of them, is Conditional
\* in the result: AllPaths only comes from AllPaths on both paths.
C21_ConditionalOnDivergence ==
    lt_op \in {"FieldReads::combine_paths", "MethodCalls::combine_paths",
               "FieldWriteRegs::combine_paths"} =>
        LET x == SubRecordMap(lt_x)
            y == SubRecordMap(lt_y)
            once == SubRecordMap(lt_once)
        IN  /\ DOMAIN x \cup DOMAIN y \subseteq DOMAIN once
            /\ \A k \in DOMAIN x \cup DOMAIN y :
                   \/ /\ k \in DOMAIN x /\ k \in DOMAIN y
                      /\ SubRecordFlow(x[k]) = "AllPaths"
                      /\ SubRecordFlow(y[k]) = "AllPaths"
                   \/ SubRecordFlow(once[k]) = "Conditional"

C21_Witness ==
    /\ lt_op = "FieldReads::combine_paths"
    /\ DOMAIN lt_x.m_fields = {"f", "g"}
    /\ DOMAIN lt_y.m_fields = {"g"}
    /\ lt_x.m_fields["f"] = "AllPaths"
    /\ lt_x.m_fields["g"] = "AllPaths"
    /\ lt_y.m_fields["g"] = "AllPaths"
    /\ lt_once.m_fields["f"] = "Conditional"
    /\ lt_once.m_fields["g"] = "AllPaths"

\* C22: a register without an entry and a cleared register both read as
\* bottom, so after clear(i) get(i) is bottom and is_empty(i) holds; clear(i)
\* adds no entry to the registers, and leaves every other register and the
\* all-seen set as they were.
C22_ClearReadsBottom ==
    /\ [](\A r \in Regs :
              (r \notin DOMAIN m_registers \/ m_registers[r] = Null) =>
                  get(r) = Null /\ is_empty(r))
    /\ [](last_op[1] = "clear" =>
              get(last_op[2]) = Null /\ is_empty(last_op[2]))
    /\ [][last_op'[1] = "clear" =>
              /\ DOMAIN m_registers' = DOMAIN m_registers
              /\ \A r \in DOMAIN m_registers \ {last_op'[2]} :
                     m_registers'[r] = m_registers[r]
              /\ m_all_uses' = m_all_uses]_vars

C22_Witness ==
    /\ last_op[1] = "clear"
    /\ last_op[2] \notin DOMAIN m_registers
    /\ get(last_op[2]) = Null
    /\ \E r \in DOMAIN m_registers : m_registers[r] # Null
    /\ m_all_uses # {}

\* The reduction of n copies of v.
RECURSIVE Copies(_, _, _)
Copies(kind, v, n) ==
    IF n = 1 THEN v ELSE Reduce(kind, Copies(kind, v, n - 1), v)

\* C23: the worker lambda resets its worker's m_result to init_output when it
\* starts, after that only a consumed task changes it (a worker that consumed
\* no task holds exactly init_output), and the value run_all returns on N
\* workers is the reduction of N + 1 copies of init_output with the mapper
\* outputs of all tasks.
C23_InitPerWorkerAndOnceMore ==
    /\ [](main_pc = "returned" =>
              result = ReduceOutputs(
                           m_reducer,
                           Copies(m_reducer, init_output, m_num_threads + 1),
                           next_task - 1))
    /\ [][\A w \in Workers :
              (wpc[w] = "start" /\ wpc'[w] # "start") =>
                  m_result'[w] = init_output]_vars
    /\ [][\A w \in Workers :
              wpc[w] \notin {"start", "mapper"} =>
                  m_result'[w] = m_result[w]]_vars

C23_Witness ==
    /\ main_pc = "returned"
    /\ init_output = 1
    /\ m_num_threads = 2
    /\ \E w, v \in Workers :
           /\ m_result[w] = init_output
           /\ m_result[v] = init_output + Mapper(1) + Mapper(2)
    /\ result = 3 + Mapper(1) + Mapper(2)

\* C24: when the last worker has exited every worker queue is empty; a
\* worker that has exited stays out, so a task is only ever taken by a worker
\* that has not exited yet, also when it was pushed after another worker left.
C24_EmptyAtLastExit ==
    /\ []((Workers # {} /\ AllExited) =>
              \A w \in Workers : m_queue[w] = << >>)
    /\ [][\A w \in Workers : wpc[w] = "exited" => wpc'[w] = "exited"]_vars
    /\ [][\A t \in TaskIds :
              consumed'[t] # consumed[t] =>
                  \E w \in Workers :
                      /\ wpc[w] = "walk"
                      /\ wpc'[w] = "mapper"
                      /\ cur_task'[w] = t]_vars

C24_Witness ==
    /\ m_num_threads = 2
    /\ AllExited
    /\ \A w \in Workers : m_queue[w] = << >>
    /\ \E t \in pushed_alone :
           /\ consumed[t] = 1
           /\ m_result[pushed_by[t]] # init_output
           /\ \E w \in Workers \ {pushed_by[t]} : m_result[w] = init_output

====
